---- MODULE Spec2Model ----
(***************************************************************************)
(* Model of the message lifecycle service of httpsms                       *)
(* (api/pkg/services/message_service.go): the persisted messages, the      *)
(* events handed to the event dispatcher, the lifecycle operations and the *)
(* outstanding-message fan-out.                                            *)
(***************************************************************************)
EXTENDS Integers, Sequences, FiniteSets, TLC

(***************************************************************************)
(* Bounds of the model.                                                    *)
(***************************************************************************)
\* message IDs are 1..MaxMessages (uuid.UUID values)
MaxMessages == 2
\* timestamps are 1..MaxTimestamp (time.Time values)
MaxTimestamp == 2

MessageIDs == 1..MaxMessages
Timestamps == 1..MaxTimestamp
\* entities.UserID is a Go string: its zero value and the ID of a user
ZeroUserID == ""
UserIDs == {ZeroUserID, "user-1"}

\* a nil pointer and a pointer to a value (*time.Time, *time.Duration)
Nil == <<>>
Ptr(v) == <<v>>

(***************************************************************************)
(* entities.Message: status, type and the transition rules of the entity.  *)
(***************************************************************************)
MessageStatusPending == "pending"
MessageStatusSending == "sending"
MessageStatusSent == "sent"
MessageStatusDelivered == "delivered"
MessageStatusFailed == "failed"
MessageStatusReceived == "received"
MessageStatuses ==
    {MessageStatusPending, MessageStatusSending, MessageStatusSent,
     MessageStatusDelivered, MessageStatusFailed, MessageStatusReceived}

MessageTypeMobileTerminated == "mobile-terminated"
MessageTypeMobileOriginated == "mobile-originated"

MessageEventNameSent == "SENT"
MessageEventNameDelivered == "DELIVERED"
MessageEventNameFailed == "FAILED"
\* an event name none of the cases of StoreEvent's switch matches
MessageEventNameOther == "OTHER"
MessageEventNames ==
    {MessageEventNameSent, MessageEventNameDelivered, MessageEventNameFailed,
     MessageEventNameOther}

IsSending(message) == message.Status = MessageStatusSending
IsSent(message) == message.Status = MessageStatusSent

AddSendAttempt(message, timestamp) ==
    [message EXCEPT !.Status = MessageStatusSending,
                    !.LastAttemptedAt = Ptr(timestamp)]

Sent(message, timestamp) ==
    [message EXCEPT !.Status = MessageStatusSent,
                    !.SentAt = Ptr(timestamp),
                    !.SendDuration = Ptr(timestamp - message.RequestReceivedAt)]

Failed(message, timestamp) ==
    [message EXCEPT !.Status = MessageStatusFailed,
                    !.FailedAt = Ptr(timestamp)]

Delivered(message, timestamp) ==
    [message EXCEPT !.Status = MessageStatusDelivered,
                    !.ReceivedAt = Ptr(timestamp)]

(***************************************************************************)
(* Event types (events.EventType...).                                      *)
(***************************************************************************)
EventTypeMessageAPISent == "message.api.sent"
EventTypeMessagePhoneReceived == "message.phone.received"
EventTypeMessagePhoneSending == "message.phone.sending"
EventTypeMessagePhoneSent == "message.phone.sent"
EventTypeMessagePhoneFailed == "message.phone.failed"
EventTypeMessagePhoneDelivered == "message.phone.delivered"
EventTypeHeartbeatPhoneOutstanding == "heartbeat.phone.outstanding"

\* the envelope createEvent returns: its type, the message ID and the
\* Quantity of its payload (0 where the payload has none), and whether
\* SetData encoded the payload (it returns the envelope also when not)
createEvent(eventType, messageID, quantity, setDataOK) ==
    [Type |-> eventType, MessageID |-> messageID, Quantity |-> quantity,
     Encoded |-> setDataOK]

(***************************************************************************)
(* State.                                                                  *)
(*   repository  the persisted messages: a function from the stored IDs    *)
(*               to entities.Message records                               *)
(*   dispatched  the envelopes handed to eventDispatcher.Dispatch          *)
(*   successes   per message ID, how many HandleMessageSent and            *)
(*               HandleMessageDelivered calls returned nil (counted up to  *)
(*               Many)                                                     *)
(***************************************************************************)
VARIABLES repository, dispatched, successes

(***************************************************************************)
(* State of one GetOutstanding call.                                       *)
(*   coordinator  the goroutine that runs GetOutstanding and               *)
(*                handleOutstandingMessages: its position (pc), the        *)
(*                messages fetched, the index of the next message of the   *)
(*                range loop, the error and the messages it returned       *)
(*   tasks        the per-message goroutines, by index in the batch        *)
(*   wg           the counter of the sync.WaitGroup                        *)
(*   lock         the holder of the sync.Mutex (0: unlocked)               *)
(*   results      the slice the goroutines append to                       *)
(*   heartbeat    the goroutine that runs registerHeartbeatEvent           *)
(***************************************************************************)
VARIABLES coordinator, tasks, wg, lock, results, heartbeat

(***************************************************************************)
(* State of the Handle* calls that run concurrently.                       *)
(*   handlers  per concurrent call: the operation and its parameters, its  *)
(*             position (pc), the message it loaded and the error it       *)
(*             returned                                                    *)
(***************************************************************************)
VARIABLES handlers

(***************************************************************************)
(* State of the Android app's Receiver object (Receiver.kt).               *)
(*   sentReceiver       the field sentReceiver: null or the SentReceiver   *)
(*   deliveredReceiver  the field deliveredReceiver: null or the           *)
(*                      DeliveredReceiver                                  *)
(*   registered         the context.registerReceiver calls made, in order: *)
(*                      the context, the receiver and the intent filter    *)
(*   registerCalls      the register calls made, in order: the context of  *)
(*                      each                                               *)
(***************************************************************************)
VARIABLES sentReceiver, deliveredReceiver, registered, registerCalls

serviceVars == <<repository, dispatched, successes, handlers>>
outstandingVars == <<coordinator, tasks, wg, lock, results, heartbeat>>
receiverVars == <<sentReceiver, deliveredReceiver, registered, registerCalls>>
vars == <<repository, dispatched, successes, handlers,
          coordinator, tasks, wg, lock, results, heartbeat,
          sentReceiver, deliveredReceiver, registered, registerCalls>>

\* the value at which the counters of successes stop: "more than once"
Many == 2
Succeeded(id, kind) ==
    [successes EXCEPT ![id][kind] = IF @ < Many THEN @ + 1 ELSE @]

\* the error a call returns: ErrNone is Go's nil
ErrNone == "nil"
ErrLoad == "load"
ErrStatus == "status"
ErrUpdate == "update"
ErrStore == "store"
ErrEncode == "encode"
ErrDispatch == "dispatch"
ErrEventName == "eventName"

\* no message: what Load returns with an error
NotFound == [ID |-> 0]

(***************************************************************************)
(* repositories.MessageRepository                                          *)
(***************************************************************************)
\* Load(userID, messageID) on the records of stored: the message with that
\* ID owned by that user, or an error
LoadFrom(stored, userID, messageID) ==
    IF messageID \in DOMAIN stored /\ stored[messageID].UserID = userID
    THEN stored[messageID]
    ELSE NotFound

Load(userID, messageID) == LoadFrom(repository, userID, messageID)

\* Store(message): a new record
Store(message) == (message.ID :> message) @@ repository

\* Update(message): the record with the ID of message is overwritten
Update(message) == [repository EXCEPT ![message.ID] = message]

(***************************************************************************)
(* A call of an operation of the service, as a function of the state and   *)
(* of the call's inputs: the error and the message it returns, the         *)
(* records it leaves persisted, the envelopes it hands to Dispatch and the *)
(* number of calls it makes to the collaborators.  Returns(err) is a call  *)
(* that changes nothing.                                                   *)
(***************************************************************************)
Returns(err) ==
    [err |-> err, result |-> Nil, repository |-> repository, events |-> {},
     loadCalls |-> 0, storeCalls |-> 0, updateCalls |-> 0,
     dispatchCalls |-> 0]

(***************************************************************************)
(* StoreSentMessage / StoreReceivedMessage                                 *)
(***************************************************************************)
\* the message of StoreSentMessage without its OrderTimestamp
SentMessageUnordered(params) ==
    [ID |-> params.ID,
     UserID |-> ZeroUserID,
     Type |-> MessageTypeMobileTerminated,
     Status |-> MessageStatusPending,
     RequestReceivedAt |-> params.Timestamp,
     OrderTimestamp |-> 0,
     SendDuration |-> Nil,
     LastAttemptedAt |-> Nil,
     SentAt |-> Nil,
     ReceivedAt |-> Nil,
     FailedAt |-> Nil]

SentMessage(params) ==
    [ID |-> params.ID,
     UserID |-> ZeroUserID,
     Type |-> MessageTypeMobileTerminated,
     Status |-> MessageStatusPending,
     RequestReceivedAt |-> params.Timestamp,
     OrderTimestamp |-> params.Timestamp,
     SendDuration |-> Nil,
     LastAttemptedAt |-> Nil,
     SentAt |-> Nil,
     ReceivedAt |-> Nil,
     FailedAt |-> Nil]

ReceivedMessage(params) ==
    [ID |-> params.ID,
     UserID |-> params.UserID,
     Type |-> MessageTypeMobileOriginated,
     Status |-> MessageStatusReceived,
     RequestReceivedAt |-> params.Timestamp,
     OrderTimestamp |-> params.Timestamp,
     SendDuration |-> Nil,
     LastAttemptedAt |-> Nil,
     SentAt |-> Nil,
     ReceivedAt |-> Ptr(params.Timestamp),
     FailedAt |-> Nil]

MessageStoreParams ==
    [ID : MessageIDs, UserID : UserIDs, Timestamp : Timestamps]

StoreSentMessage(params, storeOK) ==
    LET message == SentMessage(params) IN
    IF ~storeOK
    THEN [Returns(ErrStore) EXCEPT !.storeCalls = 1]
    ELSE [Returns(ErrNone) EXCEPT !.storeCalls = 1,
                                  !.repository = Store(message),
                                  !.result = Ptr(message)]

StoreReceivedMessage(params, storeOK) ==
    LET message == ReceivedMessage(params) IN
    IF ~storeOK
    THEN [Returns(ErrStore) EXCEPT !.storeCalls = 1]
    ELSE [Returns(ErrNone) EXCEPT !.storeCalls = 1,
                                  !.repository = Store(message),
                                  !.result = Ptr(message)]

(***************************************************************************)
(* HandleMessageSending / Sent / Failed / Delivered: load the message,     *)
(* check its status, apply the transition of the entity, update.           *)
(***************************************************************************)
HandleMessageParams ==
    [ID : MessageIDs, UserID : UserIDs, Timestamp : Timestamps]

\* HandleMessageSending with a guard that lets a Pending message through
HandleMessageSendingFromPending(params, updateOK) ==
    LET message == Load(params.UserID, params.ID) IN
    IF message = NotFound
    THEN [Returns(ErrLoad) EXCEPT !.loadCalls = 1]
    ELSE IF ~IsSending(message) /\ message.Status # MessageStatusPending
    THEN [Returns(ErrStatus) EXCEPT !.loadCalls = 1]
    ELSE IF ~updateOK
    THEN [Returns(ErrUpdate) EXCEPT !.loadCalls = 1, !.updateCalls = 1]
    ELSE [Returns(ErrNone) EXCEPT
             !.loadCalls = 1, !.updateCalls = 1,
             !.repository = Update(AddSendAttempt(message, params.Timestamp))]

\* HandleMessageSending whose Update writes the message before it reports
\* its error
HandleMessageSendingHalfUpdated(params, updateOK) ==
    LET message == Load(params.UserID, params.ID) IN
    IF message = NotFound
    THEN [Returns(ErrLoad) EXCEPT !.loadCalls = 1]
    ELSE IF ~IsSending(message)
    THEN [Returns(ErrStatus) EXCEPT !.loadCalls = 1]
    ELSE [Returns(IF updateOK THEN ErrNone ELSE ErrUpdate) EXCEPT
             !.loadCalls = 1, !.updateCalls = 1,
             !.repository = Update(AddSendAttempt(message, params.Timestamp))]

HandleMessageSending(params, updateOK) ==
    LET message == Load(params.UserID, params.ID) IN
    IF message = NotFound
    THEN [Returns(ErrLoad) EXCEPT !.loadCalls = 1]
    ELSE IF ~IsSending(message)
    THEN [Returns(ErrStatus) EXCEPT !.loadCalls = 1]
    ELSE IF ~updateOK
    THEN [Returns(ErrUpdate) EXCEPT !.loadCalls = 1, !.updateCalls = 1]
    ELSE [Returns(ErrNone) EXCEPT
             !.loadCalls = 1, !.updateCalls = 1,
             !.repository = Update(AddSendAttempt(message, params.Timestamp))]

\* HandleMessageSent without the status check
HandleMessageSentUnguarded(params, updateOK) ==
    LET message == Load(params.UserID, params.ID) IN
    IF message = NotFound
    THEN [Returns(ErrLoad) EXCEPT !.loadCalls = 1]
    ELSE IF ~updateOK
    THEN [Returns(ErrUpdate) EXCEPT !.loadCalls = 1, !.updateCalls = 1]
    ELSE [Returns(ErrNone) EXCEPT
             !.loadCalls = 1, !.updateCalls = 1,
             !.repository = Update(Sent(message, params.Timestamp))]

\* HandleMessageSent handing a MessagePhoneSent event to Dispatch after the
\* Update
HandleMessageSentDispatching(params, updateOK) ==
    LET message == Load(params.UserID, params.ID) IN
    IF message = NotFound
    THEN [Returns(ErrLoad) EXCEPT !.loadCalls = 1]
    ELSE IF ~IsSending(message)
    THEN [Returns(ErrStatus) EXCEPT !.loadCalls = 1]
    ELSE IF ~updateOK
    THEN [Returns(ErrUpdate) EXCEPT !.loadCalls = 1, !.updateCalls = 1]
    ELSE [Returns(ErrNone) EXCEPT
             !.loadCalls = 1, !.updateCalls = 1,
             !.repository = Update(Sent(message, params.Timestamp)),
             !.events = {createEvent(EventTypeMessagePhoneSent, message.ID,
                                     0, TRUE)},
             !.dispatchCalls = 1]

HandleMessageSent(params, updateOK) ==
    LET message == Load(params.UserID, params.ID) IN
    IF message = NotFound
    THEN [Returns(ErrLoad) EXCEPT !.loadCalls = 1]
    ELSE IF ~IsSending(message)
    THEN [Returns(ErrStatus) EXCEPT !.loadCalls = 1]
    ELSE IF ~updateOK
    THEN [Returns(ErrUpdate) EXCEPT !.loadCalls = 1, !.updateCalls = 1]
    ELSE [Returns(ErrNone) EXCEPT
             !.loadCalls = 1, !.updateCalls = 1,
             !.repository = Update(Sent(message, params.Timestamp))]

\* HandleMessageFailed without the status check
HandleMessageFailedAnyStatus(params, updateOK) ==
    LET message == Load(params.UserID, params.ID) IN
    IF message = NotFound
    THEN [Returns(ErrLoad) EXCEPT !.loadCalls = 1]
    ELSE IF ~updateOK
    THEN [Returns(ErrUpdate) EXCEPT !.loadCalls = 1, !.updateCalls = 1]
    ELSE [Returns(ErrNone) EXCEPT
             !.loadCalls = 1, !.updateCalls = 1,
             !.repository = Update(Failed(message, params.Timestamp))]

\* HandleMessageFailed with the guard of HandleMessageSent
HandleMessageFailedOnlySending(params, updateOK) ==
    LET message == Load(params.UserID, params.ID) IN
    IF message = NotFound
    THEN [Returns(ErrLoad) EXCEPT !.loadCalls = 1]
    ELSE IF ~IsSending(message)
    THEN [Returns(ErrStatus) EXCEPT !.loadCalls = 1]
    ELSE IF ~updateOK
    THEN [Returns(ErrUpdate) EXCEPT !.loadCalls = 1, !.updateCalls = 1]
    ELSE [Returns(ErrNone) EXCEPT
             !.loadCalls = 1, !.updateCalls = 1,
             !.repository = Update(Failed(message, params.Timestamp))]

HandleMessageFailed(params, updateOK) ==
    LET message == Load(params.UserID, params.ID) IN
    IF message = NotFound
    THEN [Returns(ErrLoad) EXCEPT !.loadCalls = 1]
    ELSE IF ~IsSent(message) /\ ~IsSending(message)
    THEN [Returns(ErrStatus) EXCEPT !.loadCalls = 1]
    ELSE IF ~updateOK
    THEN [Returns(ErrUpdate) EXCEPT !.loadCalls = 1, !.updateCalls = 1]
    ELSE [Returns(ErrNone) EXCEPT
             !.loadCalls = 1, !.updateCalls = 1,
             !.repository = Update(Failed(message, params.Timestamp))]

\* HandleMessageDelivered with a guard that lets a Delivered message through
HandleMessageDeliveredAgain(params, updateOK) ==
    LET message == Load(params.UserID, params.ID) IN
    IF message = NotFound
    THEN [Returns(ErrLoad) EXCEPT !.loadCalls = 1]
    ELSE IF ~IsSent(message) /\ message.Status # MessageStatusDelivered
    THEN [Returns(ErrStatus) EXCEPT !.loadCalls = 1]
    ELSE IF ~updateOK
    THEN [Returns(ErrUpdate) EXCEPT !.loadCalls = 1, !.updateCalls = 1]
    ELSE [Returns(ErrNone) EXCEPT
             !.loadCalls = 1, !.updateCalls = 1,
             !.repository = Update(Delivered(message, params.Timestamp))]

\* HandleMessageDelivered with a guard that lets a Pending message through
HandleMessageDeliveredFromPending(params, updateOK) ==
    LET message == Load(params.UserID, params.ID) IN
    IF message = NotFound
    THEN [Returns(ErrLoad) EXCEPT !.loadCalls = 1]
    ELSE IF ~IsSent(message) /\ message.Status # MessageStatusPending
    THEN [Returns(ErrStatus) EXCEPT !.loadCalls = 1]
    ELSE IF ~updateOK
    THEN [Returns(ErrUpdate) EXCEPT !.loadCalls = 1, !.updateCalls = 1]
    ELSE [Returns(ErrNone) EXCEPT
             !.loadCalls = 1, !.updateCalls = 1,
             !.repository = Update(Delivered(message, params.Timestamp))]

HandleMessageDelivered(params, updateOK) ==
    LET message == Load(params.UserID, params.ID) IN
    IF message = NotFound
    THEN [Returns(ErrLoad) EXCEPT !.loadCalls = 1]
    ELSE IF ~IsSent(message)
    THEN [Returns(ErrStatus) EXCEPT !.loadCalls = 1]
    ELSE IF ~updateOK
    THEN [Returns(ErrUpdate) EXCEPT !.loadCalls = 1, !.updateCalls = 1]
    ELSE [Returns(ErrNone) EXCEPT
             !.loadCalls = 1, !.updateCalls = 1,
             !.repository = Update(Delivered(message, params.Timestamp))]

(***************************************************************************)
(* StoreEvent and its three handlers.                                      *)
(***************************************************************************)
\* what a handler of StoreEvent did: the error it returned and the
\* envelopes it handed to eventDispatcher.Dispatch
Handled(err, events) == [err |-> err, events |-> events]

\* handleMessageSentEvent with the guard of HandleMessageSent in front
handleMessageSentEventGuarded(message, setDataOK, dispatchOK) ==
    LET event == createEvent(EventTypeMessagePhoneSent, message.ID, 0,
                             setDataOK)
    IN IF ~IsSending(message) THEN Handled(ErrStatus, {})
       ELSE IF ~setDataOK THEN Handled(ErrEncode, {})
       ELSE IF ~dispatchOK THEN Handled(ErrDispatch, {event})
       ELSE Handled(ErrNone, {event})

handleMessageSentEvent(message, setDataOK, dispatchOK) ==
    LET event == createEvent(EventTypeMessagePhoneSent, message.ID, 0,
                             setDataOK)
    IN IF ~setDataOK THEN Handled(ErrEncode, {})
       ELSE IF ~dispatchOK THEN Handled(ErrDispatch, {event})
       ELSE Handled(ErrNone, {event})

handleMessageDeliveredEvent(message, setDataOK, dispatchOK) ==
    LET event == createEvent(EventTypeMessagePhoneDelivered, message.ID, 0,
                             setDataOK)
    IN IF ~setDataOK THEN Handled(ErrEncode, {})
       ELSE IF ~dispatchOK THEN Handled(ErrDispatch, {event})
       ELSE Handled(ErrNone, {event})

handleMessageFailedEvent(message, setDataOK, dispatchOK) ==
    LET event == createEvent(EventTypeMessagePhoneFailed, message.ID, 0,
                             setDataOK)
    IN IF ~setDataOK THEN Handled(ErrEncode, {})
       ELSE IF ~dispatchOK THEN Handled(ErrDispatch, {event})
       ELSE Handled(ErrNone, {event})

MessageStorePhoneEventParams ==
    [MessageID : MessageIDs, EventName : MessageEventNames,
     Timestamp : Timestamps]

\* StoreEvent applying the transition of a Sent event to the message itself
StoreEventApplyingSent(message, params, setDataOK, dispatchOK, loadOK) ==
    LET handled ==
           CASE params.EventName = MessageEventNameSent ->
                   handleMessageSentEvent(message, setDataOK, dispatchOK)
             [] params.EventName = MessageEventNameDelivered ->
                   handleMessageDeliveredEvent(message, setDataOK, dispatchOK)
             [] params.EventName = MessageEventNameFailed ->
                   handleMessageFailedEvent(message, setDataOK, dispatchOK)
             [] OTHER -> Handled(ErrEventName, {})
        loaded == IF loadOK THEN Load(message.UserID, params.MessageID)
                  ELSE NotFound
        call == [Returns(handled.err) EXCEPT
                    !.events = handled.events,
                    !.dispatchCalls = Cardinality(handled.events)]
        applied ==
           IF params.EventName = MessageEventNameSent
           THEN [call EXCEPT
                    !.updateCalls = 1,
                    !.repository = Update(Sent(message, params.Timestamp))]
           ELSE call
    IN IF handled.err # ErrNone
       THEN call
       ELSE IF loaded = NotFound
       THEN [applied EXCEPT !.err = ErrLoad, !.loadCalls = 1]
       ELSE [applied EXCEPT !.result = Ptr(loaded), !.loadCalls = 1]

\* StoreEvent taking an event name it does not know for Sent
StoreEventSentByDefault(message, params, setDataOK, dispatchOK, loadOK) ==
    LET handled ==
           CASE params.EventName = MessageEventNameDelivered ->
                   handleMessageDeliveredEvent(message, setDataOK, dispatchOK)
             [] params.EventName = MessageEventNameFailed ->
                   handleMessageFailedEvent(message, setDataOK, dispatchOK)
             [] OTHER ->
                   handleMessageSentEvent(message, setDataOK, dispatchOK)
        loaded == IF loadOK THEN Load(message.UserID, params.MessageID)
                  ELSE NotFound
        call == [Returns(handled.err) EXCEPT
                    !.events = handled.events,
                    !.dispatchCalls = Cardinality(handled.events)]
    IN IF handled.err # ErrNone
       THEN call
       ELSE IF loaded = NotFound
       THEN [call EXCEPT !.err = ErrLoad, !.loadCalls = 1]
       ELSE [call EXCEPT !.result = Ptr(loaded), !.loadCalls = 1]

\* StoreEvent(message, params): message is the message the caller loaded
StoreEvent(message, params, setDataOK, dispatchOK, loadOK) ==
    LET handled ==
           CASE params.EventName = MessageEventNameSent ->
                   handleMessageSentEvent(message, setDataOK, dispatchOK)
             [] params.EventName = MessageEventNameDelivered ->
                   handleMessageDeliveredEvent(message, setDataOK, dispatchOK)
             [] params.EventName = MessageEventNameFailed ->
                   handleMessageFailedEvent(message, setDataOK, dispatchOK)
             [] OTHER -> Handled(ErrEventName, {})
        loaded == IF loadOK THEN Load(message.UserID, params.MessageID)
                  ELSE NotFound
        call == [Returns(handled.err) EXCEPT
                    !.events = handled.events,
                    !.dispatchCalls = Cardinality(handled.events)]
    IN IF handled.err # ErrNone
       THEN call
       ELSE IF loaded = NotFound
       THEN [call EXCEPT !.err = ErrLoad, !.loadCalls = 1]
       ELSE [call EXCEPT !.result = Ptr(loaded), !.loadCalls = 1]

(***************************************************************************)
(* SendMessage / ReceiveMessage: build the event with a new message ID,    *)
(* dispatch it, load the message with that ID.  The subscriber of the      *)
(* event creates the record: subscriberStored says whether it has done so  *)
(* by the time Dispatch returns.                                           *)
(***************************************************************************)
\* uuid.New(): an ID no message and no event carries yet
NewID(id) ==
    /\ id \notin DOMAIN repository
    /\ \A event \in dispatched : event.MessageID # id

MessageSendParams == [UserID : UserIDs, RequestReceivedAt : Timestamps]

\* SendMessage going on to the Load after a failed Dispatch
SendMessageLoadAnyway(params, id, setDataOK, dispatchOK, subscriberStored) ==
    LET event == createEvent(EventTypeMessageAPISent, id, 0, setDataOK)
        stored == SentMessage([ID |-> id, UserID |-> params.UserID,
                               Timestamp |-> params.RequestReceivedAt])
        persisted == IF subscriberStored THEN Store(stored) ELSE repository
        message == LoadFrom(persisted, params.UserID, id)
    IN IF ~setDataOK
       THEN Returns(ErrEncode)
       ELSE IF message = NotFound
       THEN [Returns(ErrLoad) EXCEPT !.events = {event},
                                     !.dispatchCalls = 1,
                                     !.repository = persisted,
                                     !.loadCalls = 1]
       ELSE [Returns(ErrNone) EXCEPT !.events = {event},
                                     !.dispatchCalls = 1,
                                     !.repository = persisted,
                                     !.loadCalls = 1,
                                     !.result = Ptr(message)]

SendMessage(params, id, setDataOK, dispatchOK, subscriberStored) ==
    LET event == createEvent(EventTypeMessageAPISent, id, 0, setDataOK)
        stored == SentMessage([ID |-> id, UserID |-> params.UserID,
                               Timestamp |-> params.RequestReceivedAt])
        persisted == IF subscriberStored THEN Store(stored) ELSE repository
        message == LoadFrom(persisted, params.UserID, id)
    IN IF ~setDataOK
       THEN Returns(ErrEncode)
       ELSE IF ~dispatchOK
       THEN [Returns(ErrDispatch) EXCEPT !.events = {event},
                                         !.dispatchCalls = 1]
       ELSE IF message = NotFound
       THEN [Returns(ErrLoad) EXCEPT !.events = {event},
                                     !.dispatchCalls = 1,
                                     !.repository = persisted,
                                     !.loadCalls = 1]
       ELSE [Returns(ErrNone) EXCEPT !.events = {event},
                                     !.dispatchCalls = 1,
                                     !.repository = persisted,
                                     !.loadCalls = 1,
                                     !.result = Ptr(message)]

MessageReceiveParams == [UserID : UserIDs, Timestamp : Timestamps]

ReceiveMessage(params, id, setDataOK, dispatchOK, subscriberStored) ==
    LET event == createEvent(EventTypeMessagePhoneReceived, id, 0, setDataOK)
        stored == ReceivedMessage([ID |-> id, UserID |-> params.UserID,
                                   Timestamp |-> params.Timestamp])
        persisted == IF subscriberStored THEN Store(stored) ELSE repository
        message == LoadFrom(persisted, params.UserID, id)
    IN IF ~setDataOK
       THEN Returns(ErrEncode)
       ELSE IF ~dispatchOK
       THEN [Returns(ErrDispatch) EXCEPT !.events = {event},
                                         !.dispatchCalls = 1]
       ELSE IF message = NotFound
       THEN [Returns(ErrLoad) EXCEPT !.events = {event},
                                     !.dispatchCalls = 1,
                                     !.repository = persisted,
                                     !.loadCalls = 1]
       ELSE [Returns(ErrNone) EXCEPT !.events = {event},
                                     !.dispatchCalls = 1,
                                     !.repository = persisted,
                                     !.loadCalls = 1,
                                     !.result = Ptr(message)]

(***************************************************************************)
(* The calls as steps of the system: the records the call leaves           *)
(* persisted and the envelopes it handed to Dispatch become the state.     *)
(***************************************************************************)
Apply(call) ==
    /\ repository' = call.repository
    /\ dispatched' = dispatched \cup call.events

\* StoreSentMessage and StoreReceivedMessage are called with the ID of a
\* new message (the uuid.New() of SendMessage and ReceiveMessage)
CallStoreSentMessage(params, storeOK) ==
    /\ params.ID \notin DOMAIN repository
    /\ Apply(StoreSentMessage(params, storeOK))
    /\ UNCHANGED <<successes, handlers, outstandingVars, receiverVars>>

CallStoreReceivedMessage(params, storeOK) ==
    /\ params.ID \notin DOMAIN repository
    /\ Apply(StoreReceivedMessage(params, storeOK))
    /\ UNCHANGED <<successes, handlers, outstandingVars, receiverVars>>

CallHandleMessageSending(params, updateOK) ==
    /\ Apply(HandleMessageSending(params, updateOK))
    /\ UNCHANGED <<successes, handlers, outstandingVars, receiverVars>>

CallHandleMessageSent(params, updateOK) ==
    /\ Apply(HandleMessageSent(params, updateOK))
    /\ successes' = IF HandleMessageSent(params, updateOK).err = ErrNone
                    THEN Succeeded(params.ID, "sent") ELSE successes
    /\ UNCHANGED <<handlers, outstandingVars, receiverVars>>

CallHandleMessageFailed(params, updateOK) ==
    /\ Apply(HandleMessageFailed(params, updateOK))
    /\ UNCHANGED <<successes, handlers, outstandingVars, receiverVars>>

CallHandleMessageDelivered(params, updateOK) ==
    /\ Apply(HandleMessageDelivered(params, updateOK))
    /\ successes' = IF HandleMessageDelivered(params, updateOK).err = ErrNone
                    THEN Succeeded(params.ID, "delivered") ELSE successes
    /\ UNCHANGED <<handlers, outstandingVars, receiverVars>>

CallStoreEvent(message, params, setDataOK, dispatchOK, loadOK) ==
    /\ Apply(StoreEvent(message, params, setDataOK, dispatchOK, loadOK))
    /\ UNCHANGED <<successes, handlers, outstandingVars, receiverVars>>

CallSendMessage(params, id, setDataOK, dispatchOK, subscriberStored) ==
    /\ NewID(id)
    /\ Apply(SendMessage(params, id, setDataOK, dispatchOK, subscriberStored))
    /\ UNCHANGED <<successes, handlers, outstandingVars, receiverVars>>

CallReceiveMessage(params, id, setDataOK, dispatchOK, subscriberStored) ==
    /\ NewID(id)
    /\ Apply(ReceiveMessage(params, id, setDataOK, dispatchOK,
                            subscriberStored))
    /\ UNCHANGED <<successes, handlers, outstandingVars, receiverVars>>

(***************************************************************************)
(* The external actor that moves a stored message from Pending to Sending  *)
(* (no operation of the service does).                                     *)
(***************************************************************************)
ExternalSending(id) ==
    /\ id \in DOMAIN repository
    /\ repository[id].Status = MessageStatusPending
    /\ repository' = [repository EXCEPT ![id].Status = MessageStatusSending]
    /\ UNCHANGED <<dispatched, successes, handlers, outstandingVars,
                   receiverVars>>

(***************************************************************************)
(* Handle* calls that run concurrently: the Load, the status check and     *)
(* the Update of a call are separate steps, and the steps of other calls   *)
(* come between them.                                                      *)
(***************************************************************************)
\* the number of Handle* calls that run concurrently
MaxHandlers == 2

HandleOps ==
    {"HandleMessageSending", "HandleMessageSent", "HandleMessageFailed",
     "HandleMessageDelivered"}

NoHandler ==
    [pc |-> "idle", op |-> "",
     params |-> [ID |-> 0, UserID |-> ZeroUserID, Timestamp |-> 0],
     message |-> NotFound, err |-> ErrNone]

\* the status check of each operation
PassesGuard(op, message) ==
    CASE op = "HandleMessageSending" -> IsSending(message)
      [] op = "HandleMessageSent" -> IsSending(message)
      [] op = "HandleMessageFailed" -> ~(~IsSent(message) /\ ~IsSending(message))
      [] op = "HandleMessageDelivered" -> IsSent(message)

\* the message each operation hands to repository.Update
Transition(op, message, timestamp) ==
    CASE op = "HandleMessageSending" -> AddSendAttempt(message, timestamp)
      [] op = "HandleMessageSent" -> Sent(message, timestamp)
      [] op = "HandleMessageFailed" -> Failed(message, timestamp)
      [] op = "HandleMessageDelivered" -> Delivered(message, timestamp)

\* the call returns
HandlerReturn(h, err) ==
    handlers' = [handlers EXCEPT ![h].pc = "done", ![h].err = err,
                                 ![h].message = NotFound]

\* call h starts: repository.Load
HandlerLoad(h, op, params) ==
    LET message == Load(params.UserID, params.ID) IN
    /\ handlers[h].pc = "idle"
    /\ handlers' =
          [handlers EXCEPT
              ![h] = IF message = NotFound
                     THEN [NoHandler EXCEPT !.pc = "done", !.op = op,
                                            !.params = params,
                                            !.err = ErrLoad]
                     ELSE [NoHandler EXCEPT !.pc = "guard", !.op = op,
                                            !.params = params,
                                            !.message = message]]
    /\ UNCHANGED <<repository, dispatched, successes, outstandingVars,
                   receiverVars>>

\* call h checks the status of the message it loaded
HandlerGuard(h) ==
    /\ handlers[h].pc = "guard"
    /\ IF PassesGuard(handlers[h].op, handlers[h].message)
       THEN handlers' = [handlers EXCEPT ![h].pc = "update"]
       ELSE HandlerReturn(h, ErrStatus)
    /\ UNCHANGED <<repository, dispatched, successes, outstandingVars,
                   receiverVars>>

\* call h hands the message it loaded, with the transition applied, to
\* repository.Update and returns
HandlerUpdate(h, updateOK) ==
    LET op == handlers[h].op
        id == handlers[h].params.ID
    IN
    /\ handlers[h].pc = "update"
    /\ IF ~updateOK
       THEN /\ HandlerReturn(h, ErrUpdate)
            /\ UNCHANGED <<repository, successes>>
       ELSE /\ HandlerReturn(h, ErrNone)
            /\ repository' = Update(Transition(op, handlers[h].message,
                                               handlers[h].params.Timestamp))
            /\ successes' =
                  IF op = "HandleMessageSent" THEN Succeeded(id, "sent")
                  ELSE IF op = "HandleMessageDelivered"
                  THEN Succeeded(id, "delivered")
                  ELSE successes
    /\ UNCHANGED <<dispatched, outstandingVars, receiverVars>>

(***************************************************************************)
(* GetOutstanding: fetch, heartbeat goroutine, fan-out, barrier.           *)
(***************************************************************************)
Idle ==
    [pc |-> "idle", batch |-> <<>>, next |-> 1, err |-> ErrNone,
     returned |-> Nil]

NoHeartbeat ==
    [pc |-> "none", quantity |-> 0, encoded |-> TRUE, errors |-> 0,
     dispatches |-> 0]

\* the IDs of the messages repository.GetOutstanding may return to userID
OutstandingIDs(userID) ==
    {id \in DOMAIN repository :
        /\ repository[id].UserID = userID
        /\ repository[id].Status = MessageStatusPending}

\* the elements of a set of IDs as a sequence, in the order of the IDs
RECURSIVE Ordered(_)
Ordered(ids) ==
    IF ids = {} THEN <<>>
    ELSE LET least == CHOOSE id \in ids : \A other \in ids : id <= other
         IN <<least>> \o Ordered(ids \ {least})

MessageGetOutstandingParams == [UserID : UserIDs, Limit : 0..MaxMessages]

\* GetOutstanding starting the heartbeat goroutine only for a batch that
\* is not empty
GetOutstandingQuietWhenEmpty(params, ids, fetchOK) ==
    /\ coordinator.pc = "idle"
    /\ ids \subseteq OutstandingIDs(params.UserID)
    /\ Cardinality(ids) <= params.Limit
    /\ IF ~fetchOK
       THEN /\ coordinator' = [coordinator EXCEPT !.pc = "returned",
                                                  !.err = ErrLoad]
            /\ UNCHANGED heartbeat
       ELSE /\ coordinator' =
                 [coordinator EXCEPT
                     !.pc = "range",
                     !.batch = [i \in 1..Cardinality(ids) |->
                                   repository[Ordered(ids)[i]]]]
            /\ heartbeat' = IF ids = {} THEN heartbeat
                            ELSE [NoHeartbeat EXCEPT
                                     !.pc = "create",
                                     !.quantity = Cardinality(ids)]
    /\ results' = <<>>
    /\ UNCHANGED <<serviceVars, receiverVars, tasks, wg, lock>>

\* GetOutstanding starting the heartbeat goroutine before it looks at the
\* error of the fetch
GetOutstandingHeartbeatFirst(params, ids, fetchOK) ==
    /\ coordinator.pc = "idle"
    /\ ids \subseteq OutstandingIDs(params.UserID)
    /\ Cardinality(ids) <= params.Limit
    /\ IF ~fetchOK
       THEN /\ coordinator' = [coordinator EXCEPT !.pc = "returned",
                                                  !.err = ErrLoad]
            /\ heartbeat' = [NoHeartbeat EXCEPT !.pc = "create"]
       ELSE /\ coordinator' =
                 [coordinator EXCEPT
                     !.pc = "range",
                     !.batch = [i \in 1..Cardinality(ids) |->
                                   repository[Ordered(ids)[i]]]]
            /\ heartbeat' = [NoHeartbeat EXCEPT !.pc = "create",
                                                !.quantity = Cardinality(ids)]
    /\ results' = <<>>
    /\ UNCHANGED <<serviceVars, receiverVars, tasks, wg, lock>>

\* GetOutstanding up to the range loop: the fetch, and `go
\* registerHeartbeatEvent` when it succeeded
GetOutstanding(params, ids, fetchOK) ==
    /\ coordinator.pc = "idle"
    /\ ids \subseteq OutstandingIDs(params.UserID)
    /\ Cardinality(ids) <= params.Limit
    /\ IF ~fetchOK
       THEN /\ coordinator' = [coordinator EXCEPT !.pc = "returned",
                                                  !.err = ErrLoad]
            /\ UNCHANGED heartbeat
       ELSE /\ coordinator' =
                 [coordinator EXCEPT
                     !.pc = "range",
                     !.batch = [i \in 1..Cardinality(ids) |->
                                   repository[Ordered(ids)[i]]]]
            /\ heartbeat' = [NoHeartbeat EXCEPT !.pc = "create",
                                                !.quantity = Cardinality(ids)]
    /\ results' = <<>>
    /\ UNCHANGED <<serviceVars, receiverVars, tasks, wg, lock>>

\* registerHeartbeatEvent: createHeartbeatPhoneOutstandingEvent; an error
\* is logged and the function goes on
registerHeartbeatCreate(setDataOK) ==
    /\ heartbeat.pc = "create"
    /\ heartbeat' = [heartbeat EXCEPT
                        !.pc = "dispatch",
                        !.encoded = setDataOK,
                        !.errors = IF setDataOK THEN @ ELSE @ + 1]
    /\ UNCHANGED <<serviceVars, receiverVars,
                   coordinator, tasks, wg, lock, results>>

\* registerHeartbeatEvent: eventDispatcher.Dispatch; an error is logged
registerHeartbeatDispatch(dispatchOK) ==
    /\ heartbeat.pc = "dispatch"
    /\ dispatched' = dispatched \cup
          {createEvent(EventTypeHeartbeatPhoneOutstanding, 0,
                       heartbeat.quantity, heartbeat.encoded)}
    /\ heartbeat' = [heartbeat EXCEPT
                        !.pc = "done",
                        !.dispatches = @ + 1,
                        !.errors = IF dispatchOK THEN @ ELSE @ + 1]
    /\ UNCHANGED <<repository, successes, handlers, receiverVars,
                 coordinator, tasks, wg,
                   lock, results>>

\* handleOutstandingMessages, one iteration of the range loop: wg.Add(1)
\* and `go func(ctx, message)`
NewTask(message) ==
    [pc |-> "create", message |-> message, loaded |-> NotFound,
     local |-> <<>>, failure |-> ErrNone, dispatches |-> 0]

\* the range loop without wg.Add(1)
SpawnWithoutAdd ==
    /\ coordinator.pc = "range"
    /\ coordinator.next <= Len(coordinator.batch)
    /\ wg' = wg
    /\ tasks' = Append(tasks, NewTask(coordinator.batch[coordinator.next]))
    /\ coordinator' = [coordinator EXCEPT !.next = @ + 1]
    /\ UNCHANGED <<serviceVars, receiverVars, lock, results, heartbeat>>

Spawn ==
    /\ coordinator.pc = "range"
    /\ coordinator.next <= Len(coordinator.batch)
    /\ wg' = wg + 1
    /\ tasks' = Append(tasks, NewTask(coordinator.batch[coordinator.next]))
    /\ coordinator' = [coordinator EXCEPT !.next = @ + 1]
    /\ UNCHANGED <<serviceVars, receiverVars, lock, results, heartbeat>>

\* the end of the range loop: the coordinator reaches wg.Wait()
RangeDone ==
    /\ coordinator.pc = "range"
    /\ coordinator.next > Len(coordinator.batch)
    /\ coordinator' = [coordinator EXCEPT !.pc = "wait"]
    /\ UNCHANGED <<serviceVars, receiverVars,
                   tasks, wg, lock, results, heartbeat>>

\* wg.Wait() with the heartbeat goroutine counted in the WaitGroup
WaitReturnAfterHeartbeat ==
    /\ coordinator.pc = "wait"
    /\ wg = 0
    /\ heartbeat.pc = "done"
    /\ coordinator' = [coordinator EXCEPT !.pc = "returned",
                                          !.returned = Ptr(results)]
    /\ UNCHANGED <<serviceVars, receiverVars,
                   tasks, wg, lock, results, heartbeat>>

\* wg.Wait() returns when the counter is 0; handleOutstandingMessages
\* returns &results and GetOutstanding returns it with a nil error
WaitReturn ==
    /\ coordinator.pc = "wait"
    /\ wg = 0
    /\ coordinator' = [coordinator EXCEPT !.pc = "returned",
                                          !.returned = Ptr(results)]
    /\ UNCHANGED <<serviceVars, receiverVars,
                   tasks, wg, lock, results, heartbeat>>

\* a goroutine returns, after the call that failed if one did: the
\* deferred wg.Done() runs
TaskReturn(i, failure) ==
    /\ tasks' = [tasks EXCEPT ![i].pc = "done", ![i].failure = failure]
    /\ wg' = wg - 1

\* the goroutine of message i: createMessagePhoneSendingEvent
TaskCreate(i, setDataOK) ==
    /\ i \in DOMAIN tasks
    /\ tasks[i].pc = "create"
    /\ IF ~setDataOK
       THEN TaskReturn(i, ErrEncode)
       ELSE /\ tasks' = [tasks EXCEPT ![i].pc = "dispatch"]
            /\ UNCHANGED wg
    /\ UNCHANGED <<serviceVars, receiverVars,
                   coordinator, lock, results, heartbeat>>

\* the goroutine of message i going on to the Load after a failed Dispatch
TaskDispatchIgnoringError(i, dispatchOK) ==
    /\ i \in DOMAIN tasks
    /\ tasks[i].pc = "dispatch"
    /\ dispatched' = dispatched \cup
          {createEvent(EventTypeMessagePhoneSending, tasks[i].message.ID,
                       0, TRUE)}
    /\ tasks' = [tasks EXCEPT
                    ![i].pc = "load",
                    ![i].dispatches = @ + 1,
                    ![i].failure = IF dispatchOK THEN @ ELSE ErrDispatch]
    /\ UNCHANGED <<repository, successes, handlers, receiverVars,
                 coordinator, lock,
                   results, heartbeat, wg>>

\* the goroutine of message i: eventDispatcher.Dispatch (dispatches counts
\* the calls); on an error the goroutine returns and the deferred
\* wg.Done() runs
TaskDispatch(i, dispatchOK) ==
    /\ i \in DOMAIN tasks
    /\ tasks[i].pc = "dispatch"
    /\ dispatched' = dispatched \cup
          {createEvent(EventTypeMessagePhoneSending, tasks[i].message.ID,
                       0, TRUE)}
    /\ tasks' = [tasks EXCEPT
                    ![i].dispatches = @ + 1,
                    ![i].pc = IF dispatchOK THEN "load" ELSE "done",
                    ![i].failure = IF dispatchOK THEN @ ELSE ErrDispatch]
    /\ wg' = IF dispatchOK THEN wg ELSE wg - 1
    /\ UNCHANGED <<repository, successes, handlers, receiverVars,
                 coordinator, lock,
                   results, heartbeat>>

\* the goroutine of message i appending the message of the batch in place
\* of the one loaded after the Dispatch
TaskLoadSnapshot(i, loadOK) ==
    LET resultMessage ==
           IF loadOK
           THEN Load(tasks[i].message.UserID, tasks[i].message.ID)
           ELSE NotFound
    IN
    /\ i \in DOMAIN tasks
    /\ tasks[i].pc = "load"
    /\ IF resultMessage = NotFound
       THEN TaskReturn(i, ErrLoad)
       ELSE /\ tasks' = [tasks EXCEPT ![i].pc = "lock",
                                      ![i].loaded = tasks[i].message]
            /\ UNCHANGED wg
    /\ UNCHANGED <<serviceVars, receiverVars,
                   coordinator, lock, results, heartbeat>>

\* the goroutine of message i: repository.Load(message.UserID, message.ID)
TaskLoad(i, loadOK) ==
    LET resultMessage ==
           IF loadOK
           THEN Load(tasks[i].message.UserID, tasks[i].message.ID)
           ELSE NotFound
    IN
    /\ i \in DOMAIN tasks
    /\ tasks[i].pc = "load"
    /\ IF resultMessage = NotFound
       THEN TaskReturn(i, ErrLoad)
       ELSE /\ tasks' = [tasks EXCEPT ![i].pc = "lock",
                                      ![i].loaded = resultMessage]
            /\ UNCHANGED wg
    /\ UNCHANGED <<serviceVars, receiverVars,
                   coordinator, lock, results, heartbeat>>

\* the goroutine of message i going on to the append without lock.Lock()
TaskLockNoMutex(i) ==
    /\ i \in DOMAIN tasks
    /\ tasks[i].pc = "lock"
    /\ lock' = i
    /\ tasks' = [tasks EXCEPT ![i].pc = "read"]
    /\ UNCHANGED <<serviceVars, receiverVars,
                   coordinator, wg, results, heartbeat>>

\* the goroutine of message i: lock.Lock()
TaskLock(i) ==
    /\ i \in DOMAIN tasks
    /\ tasks[i].pc = "lock"
    /\ lock = 0
    /\ lock' = i
    /\ tasks' = [tasks EXCEPT ![i].pc = "read"]
    /\ UNCHANGED <<serviceVars, receiverVars,
                   coordinator, wg, results, heartbeat>>

\* results = append(results, *resultMessage): the read of results
TaskAppendRead(i) ==
    /\ i \in DOMAIN tasks
    /\ tasks[i].pc = "read"
    /\ tasks' = [tasks EXCEPT ![i].pc = "write", ![i].local = results]
    /\ UNCHANGED <<serviceVars, receiverVars,
                   coordinator, wg, lock, results, heartbeat>>

\* results = append(results, *resultMessage): the write of results
TaskAppendWrite(i) ==
    /\ i \in DOMAIN tasks
    /\ tasks[i].pc = "write"
    /\ results' = Append(tasks[i].local, tasks[i].loaded)
    /\ tasks' = [tasks EXCEPT ![i].pc = "unlock", ![i].local = <<>>]
    /\ UNCHANGED <<serviceVars, receiverVars, coordinator, wg, lock, heartbeat>>

\* the goroutine returns: the deferred lock.Unlock() and wg.Done() run
TaskUnlock(i) ==
    /\ i \in DOMAIN tasks
    /\ tasks[i].pc = "unlock"
    /\ lock' = 0
    /\ TaskReturn(i, tasks[i].failure)
    /\ UNCHANGED <<serviceVars, receiverVars, coordinator, results, heartbeat>>

(***************************************************************************)
(* Receiver.register (Receiver.kt): called one call at a time.             *)
(***************************************************************************)
\* the Android contexts register is called with
MaxContexts == 3
Contexts == 1..MaxContexts

\* the number of register calls
MaxRegisterCalls == 4

\* SentReceiver() and DeliveredReceiver(): a new object, told from the
\* others of its class by the register call that constructed it
SentReceiver(call) == [class |-> "SentReceiver", call |-> call]
DeliveredReceiver(call) == [class |-> "DeliveredReceiver", call |-> call]

\* IntentFilter(SmsManagerService.sentAction()) and
\* IntentFilter(SmsManagerService.deliveredAction())
SentFilter == "SmsManagerService.sentAction()"
DeliveredFilter == "SmsManagerService.deliveredAction()"

\* context.registerReceiver(receiver, filter)
registerReceiver(context, receiver, filter) ==
    <<[context |-> context, receiver |-> receiver, filter |-> filter]>>

\* register without the null checks
registerAlways(context) ==
    LET call == Len(registerCalls) + 1 IN
    /\ Len(registerCalls) < MaxRegisterCalls
    /\ sentReceiver' = Ptr(SentReceiver(call))
    /\ deliveredReceiver' = Ptr(DeliveredReceiver(call))
    /\ registered' =
          registered
          \o registerReceiver(context, SentReceiver(call), SentFilter)
          \o registerReceiver(context, DeliveredReceiver(call),
                              DeliveredFilter)
    /\ registerCalls' = Append(registerCalls, context)
    /\ UNCHANGED <<serviceVars, outstandingVars>>

register(context) ==
    LET call == Len(registerCalls) + 1 IN
    /\ Len(registerCalls) < MaxRegisterCalls
    /\ sentReceiver' = IF sentReceiver = Nil THEN Ptr(SentReceiver(call))
                       ELSE sentReceiver
    /\ deliveredReceiver' =
          IF deliveredReceiver = Nil THEN Ptr(DeliveredReceiver(call))
          ELSE deliveredReceiver
    /\ registered' =
          registered
          \o (IF sentReceiver = Nil
              THEN registerReceiver(context, SentReceiver(call), SentFilter)
              ELSE <<>>)
          \o (IF deliveredReceiver = Nil
              THEN registerReceiver(context, DeliveredReceiver(call),
                                    DeliveredFilter)
              ELSE <<>>)
    /\ registerCalls' = Append(registerCalls, context)
    /\ UNCHANGED <<serviceVars, outstandingVars>>

Init ==
    /\ sentReceiver = Nil
    /\ deliveredReceiver = Nil
    /\ registered = <<>>
    /\ registerCalls = <<>>
    /\ repository = <<>>
    /\ dispatched = {}
    /\ successes = [id \in MessageIDs |-> [sent |-> 0, delivered |-> 0]]
    /\ handlers = [h \in 1..MaxHandlers |-> NoHandler]
    /\ coordinator = Idle
    /\ tasks = <<>>
    /\ wg = 0
    /\ lock = 0
    /\ results = <<>>
    /\ heartbeat = NoHeartbeat

Next ==
    \/ \E params \in MessageStoreParams, storeOK \in BOOLEAN :
          CallStoreSentMessage(params, storeOK)
    \/ \E params \in MessageStoreParams, storeOK \in BOOLEAN :
          CallStoreReceivedMessage(params, storeOK)
    \/ \E params \in HandleMessageParams, updateOK \in BOOLEAN :
          CallHandleMessageSending(params, updateOK)
    \/ \E params \in HandleMessageParams, updateOK \in BOOLEAN :
          CallHandleMessageSent(params, updateOK)
    \/ \E params \in HandleMessageParams, updateOK \in BOOLEAN :
          CallHandleMessageFailed(params, updateOK)
    \/ \E params \in HandleMessageParams, updateOK \in BOOLEAN :
          CallHandleMessageDelivered(params, updateOK)
    \/ \E id \in MessageIDs : ExternalSending(id)

\* the lifecycle operations, called one at a time
Spec == Init /\ [][Next]_vars

\* the number of envelopes handed to the dispatcher in SpecEvents
MaxDispatched == 2

\* the lifecycle operations serve here to bring messages into every
\* status: they run with one timestamp and with collaborators that succeed
NextEvents ==
    \/ \E params \in MessageStoreParams :
          params.Timestamp = 1 /\ CallStoreSentMessage(params, TRUE)
    \/ \E id \in MessageIDs : ExternalSending(id)
    \/ \E params \in HandleMessageParams :
          /\ params.Timestamp = 1
          /\ Load(params.UserID, params.ID) # NotFound
          /\ CallHandleMessageSent(params, TRUE)
    \/ \E params \in HandleMessageParams :
          /\ params.Timestamp = 1
          /\ Load(params.UserID, params.ID) # NotFound
          /\ CallHandleMessageFailed(params, TRUE)
    \/ \E params \in HandleMessageParams :
          /\ params.Timestamp = 1
          /\ Load(params.UserID, params.ID) # NotFound
          /\ CallHandleMessageDelivered(params, TRUE)
    \/ \E id \in DOMAIN repository, params \in MessageStorePhoneEventParams,
          setDataOK, dispatchOK, loadOK \in BOOLEAN :
          /\ Cardinality(dispatched) < MaxDispatched
          /\ params.MessageID = id
          /\ CallStoreEvent(repository[id], params, setDataOK, dispatchOK,
                            loadOK)
    \/ \E params \in MessageSendParams, id \in MessageIDs,
          setDataOK, dispatchOK, subscriberStored \in BOOLEAN :
          /\ Cardinality(dispatched) < MaxDispatched
          /\ CallSendMessage(params, id, setDataOK, dispatchOK,
                             subscriberStored)
    \/ \E params \in MessageReceiveParams, id \in MessageIDs,
          setDataOK, dispatchOK, subscriberStored \in BOOLEAN :
          /\ Cardinality(dispatched) < MaxDispatched
          /\ CallReceiveMessage(params, id, setDataOK, dispatchOK,
                                subscriberStored)

\* the operations that dispatch events, called one at a time, on messages
\* in every status
SpecEvents == Init /\ [][NextEvents]_vars

NextOutstanding ==
    \/ \E params \in MessageStoreParams : CallStoreSentMessage(params, TRUE)
    \/ \E id \in MessageIDs : ExternalSending(id)
    \/ \E params \in MessageGetOutstandingParams,
          ids \in SUBSET MessageIDs, fetchOK \in BOOLEAN :
          GetOutstanding(params, ids, fetchOK)
    \/ \E setDataOK \in BOOLEAN : registerHeartbeatCreate(setDataOK)
    \/ \E dispatchOK \in BOOLEAN : registerHeartbeatDispatch(dispatchOK)
    \/ Spawn
    \/ RangeDone
    \/ WaitReturn
    \/ \E i \in DOMAIN tasks, setDataOK \in BOOLEAN : TaskCreate(i, setDataOK)
    \/ \E i \in DOMAIN tasks, dispatchOK \in BOOLEAN :
          TaskDispatch(i, dispatchOK)
    \/ \E i \in DOMAIN tasks, loadOK \in BOOLEAN : TaskLoad(i, loadOK)
    \/ \E i \in DOMAIN tasks : TaskLock(i)
    \/ \E i \in DOMAIN tasks : TaskAppendRead(i)
    \/ \E i \in DOMAIN tasks : TaskAppendWrite(i)
    \/ \E i \in DOMAIN tasks : TaskUnlock(i)

\* one GetOutstanding call, its goroutines interleaved with each other,
\* with StoreSentMessage calls and with the external actor
SpecOutstanding == Init /\ [][NextOutstanding]_vars

\* MaxHandlers Handle* calls of the owners of stored messages, their steps
\* interleaved with each other, with HandleMessageSent calls that run
\* alone and with the external actor; every call has the same timestamp
NextConcurrent ==
    \/ \E params \in MessageStoreParams :
          params.Timestamp = 1 /\ CallStoreSentMessage(params, TRUE)
    \/ \E id \in MessageIDs : ExternalSending(id)
    \/ \E params \in HandleMessageParams :
          /\ params.Timestamp = 1
          /\ Load(params.UserID, params.ID) # NotFound
          /\ CallHandleMessageSent(params, TRUE)
    \/ \E h \in 1..MaxHandlers, op \in HandleOps,
          params \in HandleMessageParams :
          /\ params.Timestamp = 1
          /\ Load(params.UserID, params.ID) # NotFound
          /\ HandlerLoad(h, op, params)
    \/ \E h \in 1..MaxHandlers : HandlerGuard(h)
    \/ \E h \in 1..MaxHandlers, updateOK \in BOOLEAN :
          HandlerUpdate(h, updateOK)

SpecConcurrent == Init /\ [][NextConcurrent]_vars

\* the steps of the goroutine of message i
TaskStep(i) ==
    \/ \E setDataOK \in BOOLEAN : TaskCreate(i, setDataOK)
    \/ \E dispatchOK \in BOOLEAN : TaskDispatch(i, dispatchOK)
    \/ \E loadOK \in BOOLEAN : TaskLoad(i, loadOK)
    \/ TaskLock(i)
    \/ TaskAppendRead(i)
    \/ TaskAppendWrite(i)
    \/ TaskUnlock(i)

\* the Go scheduler runs every goroutine that can run, and every call a
\* per-message goroutine makes (SetData, Dispatch, Load) returns; nothing
\* is assumed of the heartbeat goroutine
FairOutstanding ==
    /\ WF_vars(Spawn)
    /\ WF_vars(RangeDone)
    /\ WF_vars(WaitReturn)
    /\ \A i \in 1..MaxMessages : WF_vars(TaskStep(i))

SpecOutstandingFair == SpecOutstanding /\ FairOutstanding

(***************************************************************************)
(* Properties of the lifecycle operations.                                 *)
(***************************************************************************)
\* the call of the handler of that name
Handle(op, params, updateOK) ==
    CASE op = "HandleMessageSending" -> HandleMessageSending(params, updateOK)
      [] op = "HandleMessageSent" -> HandleMessageSent(params, updateOK)
      [] op = "HandleMessageFailed" -> HandleMessageFailed(params, updateOK)
      [] op = "HandleMessageDelivered" ->
            HandleMessageDelivered(params, updateOK)

\* the statuses a handler requires of the loaded message
RequiredStatus(op) ==
    CASE op = "HandleMessageSending" -> {MessageStatusSending}
      [] op = "HandleMessageSent" -> {MessageStatusSending}
      [] op = "HandleMessageFailed" -> {MessageStatusSending, MessageStatusSent}
      [] op = "HandleMessageDelivered" -> {MessageStatusSent}

LifecycleEdges ==
    {<<MessageStatusSending, MessageStatusSent>>,
     <<MessageStatusSending, MessageStatusFailed>>,
     <<MessageStatusSent, MessageStatusFailed>>,
     <<MessageStatusSent, MessageStatusDelivered>>}

TerminalStatuses ==
    {MessageStatusDelivered, MessageStatusFailed, MessageStatusReceived}

\* the parameters of a handler call for the stored message id, by its owner
ParamsOf(id, timestamp) ==
    [ID |-> id, UserID |-> repository[id].UserID, Timestamp |-> timestamp]

\* C1: in every step, every stored message stays stored and either keeps
\* its status or moves along one of the edges Sending->Sent,
\* Sending->Failed, Sent->Failed, Sent->Delivered, the step of the external
\* actor from Pending to Sending apart; a message whose status is
\* Delivered, Failed or Received keeps it.
C1_StatusEdges ==
    [][\A id \in DOMAIN repository :
          /\ id \in DOMAIN repository'
          /\ \/ repository'[id].Status = repository[id].Status
             \/ <<repository[id].Status, repository'[id].Status>>
                   \in LifecycleEdges
             \/ ExternalSending(id)
          /\ repository[id].Status \in TerminalStatuses
                => repository'[id].Status = repository[id].Status]_vars

\* a message that HandleMessageFailed moved from Sent to Failed, next to a
\* message that went from Sending over Sent to Delivered
C1_Witness ==
    \E id, other \in DOMAIN repository :
       /\ repository[id].Status = MessageStatusFailed
       /\ repository[id].SentAt # Nil
       /\ repository[other].Status = MessageStatusDelivered
       /\ successes[other] = [sent |-> 1, delivered |-> 1]

\* C2: every Handle* call on a stored message whose status is outside the
\* set the operation requires returns an error, does not call Update and
\* leaves the persisted messages as they were (HandleMessageSent: any
\* status other than Sending).
C2_WrongStatusFails ==
    \A op \in HandleOps, params \in HandleMessageParams, updateOK \in BOOLEAN :
       LET call == Handle(op, params, updateOK) IN
       (/\ params.ID \in DOMAIN repository
        /\ repository[params.ID].Status \notin RequiredStatus(op))
       => /\ call.err \in {ErrLoad, ErrStatus}
          /\ call.updateCalls = 0
          /\ call.repository = repository
          /\ call.events = {}

\* a message HandleMessageSent has moved to Sent: the next HandleMessageSent
\* call of its owner fails for the status
C2_Witness ==
    \E id \in DOMAIN repository :
       /\ repository[id].Status = MessageStatusSent
       /\ successes[id].sent = 1
       /\ \A timestamp \in Timestamps :
             HandleMessageSent(ParamsOf(id, timestamp), TRUE).err = ErrStatus

\* C3: HandleMessageFailed on a message it loads with status Sending or Sent
\* passes the guard and, when the Update succeeds, returns nil and persists
\* status Failed; on a message with status Pending, Delivered or Received
\* it returns an error and the persisted messages are unchanged.
C3_FailedFromSendingOrSent ==
    \A params \in HandleMessageParams, updateOK \in BOOLEAN :
       LET call == HandleMessageFailed(params, updateOK)
           message == Load(params.UserID, params.ID)
       IN
       /\ (/\ message # NotFound
           /\ message.Status \in {MessageStatusSending, MessageStatusSent})
          => /\ call.err = IF updateOK THEN ErrNone ELSE ErrUpdate
             /\ call.updateCalls = 1
             /\ call.err = ErrNone =>
                   call.repository =
                      [repository EXCEPT
                          ![params.ID] = Failed(message, params.Timestamp)]
             /\ call.err = ErrNone =>
                   call.repository[params.ID].Status = MessageStatusFailed
             /\ call.err = ErrUpdate => call.repository = repository
       /\ (/\ params.ID \in DOMAIN repository
           /\ repository[params.ID].Status
                 \in {MessageStatusPending, MessageStatusDelivered,
                      MessageStatusReceived})
          => /\ call.err # ErrNone
             /\ call.repository = repository

\* HandleMessageFailed has acted from both statuses: one message Failed
\* that was never Sent and one Failed after it was Sent
C3_Witness ==
    \E id, other \in DOMAIN repository :
       /\ repository[id].Status = MessageStatusFailed
       /\ repository[id].FailedAt # Nil
       /\ repository[id].SentAt = Nil
       /\ repository[other].Status = MessageStatusFailed
       /\ repository[other].FailedAt # Nil
       /\ repository[other].SentAt # Nil

\* C4: per message, HandleMessageSent returns nil at most once and
\* HandleMessageDelivered returns nil at most once and only after
\* HandleMessageSent has: on a Sending message HandleMessageSent succeeds
\* and on a Sent message HandleMessageDelivered does (owner's call,
\* successful Update), while a HandleMessageSent after a successful one, a
\* HandleMessageDelivered before the successful HandleMessageSent and a
\* HandleMessageDelivered after a successful one all return an error.
C4_EachStepOnce ==
    \A id \in MessageIDs :
       /\ successes[id].sent <= 1
       /\ successes[id].delivered <= 1
       /\ successes[id].delivered >= 1 => successes[id].sent >= 1
       /\ \A params \in HandleMessageParams, updateOK \in BOOLEAN :
             params.ID = id =>
                /\ successes[id].sent >= 1
                      => HandleMessageSent(params, updateOK).err # ErrNone
                /\ successes[id].sent = 0
                      => HandleMessageDelivered(params, updateOK).err
                            # ErrNone
                /\ successes[id].delivered >= 1
                      => HandleMessageDelivered(params, updateOK).err
                            # ErrNone
       /\ \A timestamp \in Timestamps :
             /\ (id \in DOMAIN repository
                 /\ repository[id].Status = MessageStatusSending)
                => HandleMessageSent(ParamsOf(id, timestamp), TRUE).err
                      = ErrNone
             /\ (id \in DOMAIN repository
                 /\ repository[id].Status = MessageStatusSent)
                => HandleMessageDelivered(ParamsOf(id, timestamp), TRUE).err
                      = ErrNone

\* both steps have succeeded once on a message, and both now fail
C4_Witness ==
    \E id \in DOMAIN repository :
       /\ successes[id] = [sent |-> 1, delivered |-> 1]
       /\ repository[id].Status = MessageStatusDelivered
       /\ repository[id].SentAt # Nil
       /\ repository[id].ReceivedAt # Nil
       /\ HandleMessageSent(ParamsOf(id, 1), TRUE).err = ErrStatus
       /\ HandleMessageDelivered(ParamsOf(id, 1), TRUE).err = ErrStatus

\* C5: HandleMessageSending on a Pending message returns an error and
\* leaves it unmodified; on a message it loads with status Sending it passes
\* the guard and, when the Update succeeds, returns nil and the persisted
\* message is the one before with LastAttemptedAt set to the timestamp of
\* the call and status Sending, also when LastAttemptedAt was set by an
\* earlier call.
C5_SendAttempt ==
    \A params \in HandleMessageParams, updateOK \in BOOLEAN :
       LET call == HandleMessageSending(params, updateOK)
           message == Load(params.UserID, params.ID)
       IN
       /\ (/\ params.ID \in DOMAIN repository
           /\ repository[params.ID].Status = MessageStatusPending)
          => /\ call.err # ErrNone
             /\ call.updateCalls = 0
             /\ call.repository = repository
       /\ (message # NotFound /\ message.Status = MessageStatusSending)
          => /\ call.err = IF updateOK THEN ErrNone ELSE ErrUpdate
             /\ call.err = ErrNone =>
                   /\ call.repository =
                         [repository EXCEPT
                             ![params.ID] =
                                [message EXCEPT
                                    !.LastAttemptedAt =
                                       Ptr(params.Timestamp)]]
                   /\ call.repository[params.ID].Status
                         = MessageStatusSending
             /\ call.err = ErrUpdate => call.repository = repository

\* a Sending message with a send attempt recorded, on which a call with
\* another timestamp records the next attempt
C5_Witness ==
    \E id \in DOMAIN repository, timestamp \in Timestamps :
       LET call == HandleMessageSending(ParamsOf(id, timestamp), TRUE) IN
       /\ repository[id].Status = MessageStatusSending
       /\ repository[id].LastAttemptedAt # Nil
       /\ repository[id].LastAttemptedAt # Ptr(timestamp)
       /\ call.err = ErrNone
       /\ call.repository[id].LastAttemptedAt = Ptr(timestamp)
       /\ call.repository[id].Status = MessageStatusSending

\* C9: after a StoreSentMessage that returned nil, the record with the ID
\* of the call can be loaded and every Load of it returns the message the
\* call returned, with Status Pending, Type MobileTerminated,
\* RequestReceivedAt = OrderTimestamp = the timestamp of the call and no
\* LastAttemptedAt, SentAt, ReceivedAt or SendDuration; after a
\* StoreReceivedMessage that returned nil it returns Status Received and
\* Type MobileOriginated.
C9_StoreRoundTrip ==
    \A params \in MessageStoreParams, storeOK \in BOOLEAN :
       params.ID \notin DOMAIN repository =>
          LET sent == StoreSentMessage(params, storeOK)
              received == StoreReceivedMessage(params, storeOK)
          IN
          /\ sent.err = IF storeOK THEN ErrNone ELSE ErrStore
          /\ received.err = IF storeOK THEN ErrNone ELSE ErrStore
          /\ sent.err = ErrNone =>
                /\ \E userID \in UserIDs :
                      LoadFrom(sent.repository, userID, params.ID) # NotFound
                /\ \A userID \in UserIDs :
                      LET message ==
                             LoadFrom(sent.repository, userID, params.ID)
                      IN message # NotFound =>
                            /\ sent.result = Ptr(message)
                            /\ message.ID = params.ID
                            /\ message.Status = MessageStatusPending
                            /\ message.Type = MessageTypeMobileTerminated
                            /\ message.RequestReceivedAt = params.Timestamp
                            /\ message.OrderTimestamp = params.Timestamp
                            /\ message.LastAttemptedAt = Nil
                            /\ message.SentAt = Nil
                            /\ message.ReceivedAt = Nil
                            /\ message.SendDuration = Nil
          /\ received.err = ErrNone =>
                /\ \E userID \in UserIDs :
                      LoadFrom(received.repository, userID, params.ID)
                         # NotFound
                /\ \A userID \in UserIDs :
                      LET message ==
                             LoadFrom(received.repository, userID, params.ID)
                      IN message # NotFound =>
                            /\ received.result = Ptr(message)
                            /\ message.ID = params.ID
                            /\ message.Status = MessageStatusReceived
                            /\ message.Type = MessageTypeMobileOriginated

\* a record as StoreSentMessage left it and a record as
\* StoreReceivedMessage left it
C9_Witness ==
    \E id, other \in DOMAIN repository :
       /\ repository[id].Status = MessageStatusPending
       /\ repository[id].Type = MessageTypeMobileTerminated
       /\ repository[id].RequestReceivedAt = MaxTimestamp
       /\ repository[id].OrderTimestamp = MaxTimestamp
       /\ repository[other].Status = MessageStatusReceived
       /\ repository[other].Type = MessageTypeMobileOriginated

(***************************************************************************)
(* Properties of GetOutstanding.                                           *)
(***************************************************************************)
\* the goroutines that have returned, and whose call of the given kind
\* failed (ErrNone: none did)
TasksWith(failure) ==
    {i \in DOMAIN tasks : tasks[i].pc = "done" /\ tasks[i].failure = failure}

\* GetOutstanding has returned after a fetch that succeeded
ReturnedBatch ==
    /\ coordinator.pc = "returned"
    /\ heartbeat.pc # "none"

\* C6, as claimed: GetOutstanding returns N - K messages, N the size of the
\* batch and K the number of failed dispatches.
C6_AllButFailedDispatches ==
    ReturnedBatch =>
       /\ coordinator.err = ErrNone
       /\ coordinator.returned # Nil
       /\ Len(coordinator.returned[1]) =
             Len(coordinator.batch) - Cardinality(TasksWith(ErrDispatch))

\* C6, amended: GetOutstanding returns a nil error and N - K - B - L
\* messages, N the size of the batch, K the number of failed dispatches, B
\* of failed event builds and L of failed reloads, however the goroutines
\* interleave.
C6_AllButFailedTasks ==
    ReturnedBatch =>
       /\ coordinator.err = ErrNone
       /\ coordinator.returned # Nil
       /\ Len(coordinator.returned[1]) =
             Len(coordinator.batch) - Cardinality(TasksWith(ErrDispatch))
                - Cardinality(TasksWith(ErrEncode))
                - Cardinality(TasksWith(ErrLoad))

C6_Witness ==
    /\ ReturnedBatch
    /\ Len(coordinator.batch) = MaxMessages
    /\ Cardinality(TasksWith(ErrDispatch)) = 1
    /\ Cardinality(TasksWith(ErrLoad)) = 0
    /\ Cardinality(TasksWith(ErrEncode)) = 0
    /\ Len(coordinator.returned[1]) = MaxMessages - 1

\* C7: no envelope whose SetData failed is handed to Dispatch.
C7_SetDataFailurePreventsDispatch ==
    \A event \in dispatched : event.Encoded

\* C10: wg.Wait() returns as soon as every per-message goroutine has
\* returned, whatever the heartbeat goroutine has done, and GetOutstanding
\* then returns a nil error and the messages the goroutines loaded, whether
\* the heartbeat's event build and dispatch succeeded, failed or are still
\* to come.
C10_HeartbeatNeitherBlocksNorFails ==
    /\ (coordinator.pc = "wait" /\ \A i \in DOMAIN tasks : tasks[i].pc = "done")
          => ENABLED WaitReturn
    /\ ReturnedBatch =>
          /\ coordinator.err = ErrNone
          /\ coordinator.returned = Ptr(results)
          /\ Len(results) = Cardinality(TasksWith(ErrNone))
          /\ \A i \in TasksWith(ErrNone) :
                \E k \in DOMAIN results : results[k] = tasks[i].loaded

C10_Witness ==
    /\ ReturnedBatch
    /\ heartbeat.pc = "dispatch"
    /\ ~heartbeat.encoded
    /\ Len(coordinator.returned[1]) = MaxMessages

(***************************************************************************)
(* Properties of StoreEvent.                                               *)
(***************************************************************************)
TransitionEventNames ==
    {MessageEventNameSent, MessageEventNameDelivered, MessageEventNameFailed}

\* the statuses the transition of an event name requires
RequiredStatusOfEvent(name) ==
    CASE name = MessageEventNameSent -> {MessageStatusSending}
      [] name = MessageEventNameDelivered -> {MessageStatusSent}
      [] name = MessageEventNameFailed ->
            {MessageStatusSending, MessageStatusSent}

EventTypeOfName(name) ==
    CASE name = MessageEventNameSent -> EventTypeMessagePhoneSent
      [] name = MessageEventNameDelivered -> EventTypeMessagePhoneDelivered
      [] name = MessageEventNameFailed -> EventTypeMessagePhoneFailed

Coordinating == coordinator.pc \in {"range", "wait"}

\* the goroutines started and not yet returned
RunningTasks == {i \in DOMAIN tasks : tasks[i].pc # "done"}

\* C11: GetOutstanding does not return from a fetched batch before a
\* goroutine was started for each of its N messages and all of them have
\* returned; and once handleOutstandingMessages runs, it returns, whatever
\* the size of the batch and whichever calls of the goroutines fail.
C11_Barrier ==
    /\ [](ReturnedBatch =>
            /\ Len(tasks) = Len(coordinator.batch)
            /\ RunningTasks = {}
            /\ wg = 0)
    /\ [](wg = Cardinality(RunningTasks))
    /\ (Coordinating ~> coordinator.pc = "returned")

\* returned from a full batch each of whose goroutines failed
C11_Witness ==
    /\ ReturnedBatch
    /\ Len(coordinator.batch) = MaxMessages
    /\ Len(tasks) = MaxMessages
    /\ \A i \in DOMAIN tasks :
          tasks[i].pc = "done" /\ tasks[i].failure # ErrNone
    /\ coordinator.returned = Ptr(<<>>)

(***************************************************************************)
(* Properties of the calls to the event dispatcher.                        *)
(***************************************************************************)
\* C12: no HandleMessageSending, HandleMessageSent, HandleMessageFailed,
\* HandleMessageDelivered, StoreSentMessage or StoreReceivedMessage call
\* calls eventDispatcher.Dispatch, whatever it returns: the set of the
\* dispatched events after the call is the set before it.
C12_LifecycleNeverDispatches ==
    /\ \A op \in HandleOps, params \in HandleMessageParams,
          updateOK \in BOOLEAN :
          LET call == Handle(op, params, updateOK) IN
          /\ call.dispatchCalls = 0
          /\ dispatched \cup call.events = dispatched
    /\ \A params \in MessageStoreParams, storeOK \in BOOLEAN :
          LET sent == StoreSentMessage(params, storeOK)
              received == StoreReceivedMessage(params, storeOK)
          IN
          /\ sent.dispatchCalls = 0
          /\ dispatched \cup sent.events = dispatched
          /\ received.dispatchCalls = 0
          /\ dispatched \cup received.events = dispatched

\* a message HandleMessageSent and HandleMessageFailed have acted on, with
\* no event of it among the events dispatched for another message
C12_Witness ==
    \E id \in DOMAIN repository :
       /\ repository[id].Status = MessageStatusFailed
       /\ repository[id].SentAt # Nil
       /\ successes[id].sent = 1
       /\ dispatched # {}
       /\ \A event \in dispatched : event.MessageID # id
       /\ HandleMessageSent(ParamsOf(id, 1), TRUE).events = {}

\* what C13 says of a SendMessage or ReceiveMessage call that builds an
\* event of the given type for the message ID id
DispatchThenLoad(call, eventType, id, setDataOK, dispatchOK, subscriberStored) ==
    LET event == createEvent(eventType, id, 0, TRUE) IN
    /\ call.dispatchCalls = IF setDataOK THEN 1 ELSE 0
    /\ call.events = IF setDataOK THEN {event} ELSE {}
    /\ call.loadCalls = IF setDataOK /\ dispatchOK THEN 1 ELSE 0
    /\ (setDataOK /\ ~dispatchOK) =>
          /\ call.err = ErrDispatch
          /\ call.result = Nil
    /\ (setDataOK /\ dispatchOK /\ ~subscriberStored) =>
          /\ call.err = ErrLoad
          /\ call.result = Nil
          /\ event \in dispatched \cup call.events
    /\ call.err = ErrNone =>
          /\ call.result # Nil
          /\ call.result[1].ID = id
          /\ call.result = Ptr(call.repository[id])
    /\ call.storeCalls = 0
    /\ call.updateCalls = 0
    /\ ~subscriberStored => call.repository = repository
    /\ \A other \in DOMAIN repository :
          /\ other \in DOMAIN call.repository
          /\ call.repository[other] = repository[other]

\* C13: SendMessage (ReceiveMessage) hands one MessageAPISent
\* (MessagePhoneReceived) event with the new message ID to Dispatch, once
\* (not at all when SetData failed), and calls Load only after a Dispatch
\* that succeeded; a failed Dispatch returns an error without a Load; a
\* Load that fails because the subscriber has not created the record
\* returns an error with the event dispatched; the call itself never
\* calls Store or Update.
C13_DispatchOnceThenLoad ==
    \A id \in MessageIDs, setDataOK \in BOOLEAN, dispatchOK \in BOOLEAN,
       subscriberStored \in BOOLEAN :
       NewID(id) =>
          /\ \A params \in MessageSendParams :
                DispatchThenLoad(
                   SendMessage(params, id, setDataOK, dispatchOK,
                               subscriberStored),
                   EventTypeMessageAPISent, id, setDataOK, dispatchOK,
                   subscriberStored)
          /\ \A params \in MessageReceiveParams :
                DispatchThenLoad(
                   ReceiveMessage(params, id, setDataOK, dispatchOK,
                                  subscriberStored),
                   EventTypeMessagePhoneReceived, id, setDataOK, dispatchOK,
                   subscriberStored)

\* the event of a SendMessage call is dispatched and its record is not
\* there, and the event of a ReceiveMessage call is dispatched and the
\* subscriber has created its record
C13_Witness ==
    \E id \in MessageIDs, other \in DOMAIN repository :
       /\ id \notin DOMAIN repository
       /\ createEvent(EventTypeMessageAPISent, id, 0, TRUE) \in dispatched
       /\ createEvent(EventTypeMessagePhoneReceived, other, 0, TRUE)
             \in dispatched
       /\ repository[other].Status = MessageStatusReceived

(***************************************************************************)
(* Properties of the Handle* calls that run concurrently.                  *)
(***************************************************************************)
\* the concurrent calls of the operation op for message id that returned
\* nil
Succeeding(op, id) ==
    {h \in 1..MaxHandlers :
        /\ handlers[h].pc = "done"
        /\ handlers[h].err = ErrNone
        /\ handlers[h].op = op
        /\ handlers[h].params.ID = id}

\* C14: with the Load, the status check and the Update of concurrent
\* Handle* calls interleaved, per message HandleMessageSent returns nil at
\* most once and HandleMessageDelivered at most once, HandleMessageDelivered
\* and HandleMessageFailed do not both return nil, and a message a call
\* has persisted as Delivered or as Failed keeps that status.
C14_TransitionsOnceUnderConcurrency ==
    \A id \in MessageIDs :
       /\ successes[id].sent <= 1
       /\ successes[id].delivered <= 1
       /\ Succeeding("HandleMessageDelivered", id) = {}
             \/ Succeeding("HandleMessageFailed", id) = {}
       /\ Succeeding("HandleMessageDelivered", id) # {}
             => repository[id].Status = MessageStatusDelivered
       /\ Succeeding("HandleMessageFailed", id) # {}
             => repository[id].Status = MessageStatusFailed

(***************************************************************************)
(* Properties of the result accumulator of handleOutstandingMessages.      *)
(***************************************************************************)
\* the goroutines between lock.Lock() and lock.Unlock()
Appending ==
    {i \in DOMAIN tasks : tasks[i].pc \in {"read", "write", "unlock"}}

\* the goroutines whose append is done
Appended ==
    {i \in DOMAIN tasks :
        \/ tasks[i].pc = "unlock"
        \/ tasks[i].pc = "done" /\ tasks[i].failure = ErrNone}

\* C15: at most one goroutine is between lock.Lock() and lock.Unlock(),
\* and it holds the mutex; results holds one element for each goroutine
\* whose append is done, the message that goroutine loaded; and the
\* messages GetOutstanding returns are those of the goroutines whose event
\* build, Dispatch and Load all succeeded, one for each and each ID once.
C15_AppendUnderMutex ==
    /\ Cardinality(Appending) <= 1
    /\ \A i \in Appending : lock = i
    /\ Appending = {} => lock = 0
    /\ Len(results) = Cardinality(Appended)
    /\ \A i \in Appended :
          \E k \in DOMAIN results : results[k] = tasks[i].loaded
    /\ ReturnedBatch =>
          /\ coordinator.returned = Ptr(results)
          /\ Appended = TasksWith(ErrNone)
          /\ \A i \in DOMAIN tasks :
                (tasks[i].failure = ErrNone) <=>
                   (\E k \in DOMAIN results :
                       results[k].ID = coordinator.batch[i].ID)
          /\ \A k, l \in DOMAIN results :
                results[k].ID = results[l].ID => k = l
          /\ \A k \in DOMAIN results :
                \E i \in DOMAIN tasks :
                   results[k].ID = coordinator.batch[i].ID

\* a goroutine is inside the append while the other one, its message
\* loaded, waits for the mutex
C15_Witness ==
    \E i, j \in DOMAIN tasks :
       /\ tasks[i].pc = "write"
       /\ lock = i
       /\ tasks[j].pc = "lock"
       /\ results = <<>>

(***************************************************************************)
(* Properties of the per-message goroutine of handleOutstandingMessages.   *)
(***************************************************************************)
\* the goroutines that have got past their Dispatch call
Dispatching == {i \in DOMAIN tasks : tasks[i].pc \notin {"create", "dispatch"}}

\* C16: the goroutine of each message of the batch calls Dispatch at most
\* once, with the MessagePhoneSending event of its message, and once when
\* it has got past the call (not at all when the event build failed; no
\* second call after an error); the message it appends, and so the one
\* GetOutstanding returns, is the persisted state at its Load, which comes
\* after its own Dispatch returned nil, not the message of the batch.
C16_OneDispatchThenReload ==
    /\ [](\A i \in DOMAIN tasks :
            /\ tasks[i].dispatches <= 1
            /\ tasks[i].dispatches =
                  IF i \in Dispatching /\ tasks[i].failure # ErrEncode
                  THEN 1 ELSE 0
            /\ tasks[i].dispatches = 1 =>
                  createEvent(EventTypeMessagePhoneSending,
                              coordinator.batch[i].ID, 0, TRUE)
                     \in dispatched
            /\ tasks[i].loaded # NotFound =>
                  /\ tasks[i].dispatches = 1
                  /\ tasks[i].failure = ErrNone
                  /\ tasks[i].loaded.ID = coordinator.batch[i].ID)
    /\ [](ReturnedBatch =>
            \A k \in DOMAIN coordinator.returned[1] :
               \E i \in DOMAIN tasks :
                  coordinator.returned[1][k] = tasks[i].loaded)
    /\ [][\A i \in DOMAIN tasks :
            (tasks[i].loaded = NotFound /\ tasks'[i].loaded # NotFound)
            => /\ tasks[i].pc = "load"
               /\ tasks'[i].loaded = repository[coordinator.batch[i].ID]]_vars

\* GetOutstanding has returned a message with status Sending that was
\* Pending in the batch
C16_Witness ==
    /\ ReturnedBatch
    /\ \E i \in DOMAIN tasks, k \in DOMAIN coordinator.returned[1] :
          /\ coordinator.batch[i].Status = MessageStatusPending
          /\ coordinator.returned[1][k].ID = coordinator.batch[i].ID
          /\ coordinator.returned[1][k].Status = MessageStatusSending
          /\ tasks[i].dispatches = 1

(***************************************************************************)
(* Properties of the heartbeat of GetOutstanding.                          *)
(***************************************************************************)
\* the fetch of GetOutstanding has succeeded
Fetched == coordinator.pc # "idle" /\ coordinator.err # ErrLoad

\* the heartbeat envelopes handed to the dispatcher
Heartbeats ==
    {event \in dispatched : event.Type = EventTypeHeartbeatPhoneOutstanding}

\* C17: a GetOutstanding call whose fetch succeeded starts the heartbeat
\* goroutine, also for an empty batch; the goroutine can always take its
\* next step, calls Dispatch once, with one HeartbeatPhoneOutstanding
\* event, and the Quantity it gives the event is the number of messages
\* of the batch, whatever the number of messages returned.
C17_OneHeartbeatWithBatchSize ==
    /\ Fetched <=> heartbeat.pc # "none"
    /\ heartbeat.pc = "create" =>
          ENABLED (\E setDataOK \in BOOLEAN :
                      registerHeartbeatCreate(setDataOK))
    /\ heartbeat.pc = "dispatch" =>
          ENABLED (\E dispatchOK \in BOOLEAN :
                      registerHeartbeatDispatch(dispatchOK))
    /\ heartbeat.dispatches = (IF heartbeat.pc = "done" THEN 1 ELSE 0)
    /\ Cardinality(Heartbeats) = heartbeat.dispatches
    /\ Fetched => heartbeat.quantity = Len(coordinator.batch)
    /\ \A event \in Heartbeats :
          /\ event.Quantity = Len(coordinator.batch)
          /\ event.Encoded = heartbeat.encoded

\* the heartbeat of a batch of MaxMessages messages has been dispatched,
\* its payload encoded, and GetOutstanding has returned fewer messages
C17_Witness ==
    /\ ReturnedBatch
    /\ heartbeat.pc = "done"
    /\ Len(coordinator.batch) = MaxMessages
    /\ Len(coordinator.returned[1]) < MaxMessages
    /\ createEvent(EventTypeHeartbeatPhoneOutstanding, 0, MaxMessages, TRUE)
          \in dispatched

\* the fetch of GetOutstanding has failed
FetchFailed == coordinator.err = ErrLoad

\* C18: when the fetch of GetOutstanding fails, the call returns the error
\* and no messages, and nothing else happens then or later: no heartbeat
\* goroutine, no per-message goroutine, no event handed to the dispatcher.
C18_FailedFetchDoesNothing ==
    FetchFailed =>
       /\ coordinator.pc = "returned"
       /\ coordinator.returned = Nil
       /\ coordinator.batch = <<>>
       /\ heartbeat = NoHeartbeat
       /\ tasks = <<>>
       /\ wg = 0
       /\ results = <<>>
       /\ dispatched = {}
       /\ ~ENABLED Spawn
       /\ ~ENABLED (\E setDataOK \in BOOLEAN :
                       registerHeartbeatCreate(setDataOK))

\* the fetch has failed for a user who has Pending messages
C18_Witness ==
    /\ FetchFailed
    /\ \E userID \in UserIDs :
          Cardinality(OutstandingIDs(userID)) = MaxMessages

(***************************************************************************)
(* Properties of a Handle* call whose Update fails.                        *)
(***************************************************************************)
\* C19: a Handle* call of the owner of a stored message whose status
\* passes the guard, with an Update that fails, calls Update once, returns
\* its error and leaves every persisted message as it was, status and
\* timestamps included; the same call, made again, passes the guard again
\* and succeeds when its Update does.
C19_FailedUpdateKeepsMessage ==
    \A op \in HandleOps, id \in DOMAIN repository, timestamp \in Timestamps :
       LET failed == Handle(op, ParamsOf(id, timestamp), FALSE)
           again == Handle(op, ParamsOf(id, timestamp), TRUE)
       IN
       repository[id].Status \in RequiredStatus(op)
       => /\ failed.err = ErrUpdate
          /\ failed.loadCalls = 1
          /\ failed.updateCalls = 1
          /\ failed.events = {}
          /\ failed.repository = repository
          /\ again.err = ErrNone
          /\ again.updateCalls = 1
          /\ again.repository =
                [repository EXCEPT
                    ![id] = Transition(op, repository[id], timestamp)]

\* a message that has been sent and has a send attempt on record: the
\* HandleMessageDelivered and HandleMessageFailed calls of its owner
\* return the error of a failing Update
C19_Witness ==
    \E id \in DOMAIN repository :
       /\ repository[id].Status = MessageStatusSent
       /\ repository[id].LastAttemptedAt # Nil
       /\ successes[id].sent = 1
       /\ HandleMessageDelivered(ParamsOf(id, 1), FALSE).err = ErrUpdate
       /\ HandleMessageFailed(ParamsOf(id, 1), FALSE).err = ErrUpdate

(***************************************************************************)
(* Properties of the switch of StoreEvent.                                 *)
(***************************************************************************)
\* C20: StoreEvent with an event name other than Sent, Delivered and
\* Failed returns an error and no message, without a Dispatch or a Load
\* call; with one of the three names it calls Dispatch once (not at all
\* when SetData failed), with the event of the type of that name
\* (MessagePhoneSent, MessagePhoneDelivered, MessagePhoneFailed), and it
\* calls Load, and returns the message loaded, only after a Dispatch that
\* returned nil.
C20_StoreEventSwitch ==
    \A id \in DOMAIN repository, params \in MessageStorePhoneEventParams,
       setDataOK \in BOOLEAN, dispatchOK \in BOOLEAN, loadOK \in BOOLEAN :
       LET message == repository[id]
           call == StoreEvent(message, params, setDataOK, dispatchOK, loadOK)
       IN
       /\ params.EventName \notin TransitionEventNames =>
             /\ call.err = ErrEventName
             /\ call.result = Nil
             /\ call.dispatchCalls = 0
             /\ call.events = {}
             /\ call.loadCalls = 0
       /\ params.EventName \in TransitionEventNames =>
             /\ call.dispatchCalls = (IF setDataOK THEN 1 ELSE 0)
             /\ Cardinality(call.events) = call.dispatchCalls
             /\ \A event \in call.events :
                   /\ event.Type = EventTypeOfName(params.EventName)
                   /\ event.MessageID = message.ID
             /\ call.loadCalls = (IF setDataOK /\ dispatchOK THEN 1 ELSE 0)
             /\ (setDataOK /\ ~dispatchOK) =>
                   /\ call.err = ErrDispatch
                   /\ call.result = Nil
             /\ call.result # Nil =>
                   /\ setDataOK /\ dispatchOK /\ loadOK
                   /\ call.err = ErrNone
                   /\ call.result =
                         Ptr(Load(message.UserID, params.MessageID))
             /\ call.err = ErrNone <=> call.result # Nil
       /\ call.storeCalls = 0
       /\ call.updateCalls = 0
       /\ call.repository = repository

\* the MessagePhoneDelivered and the MessagePhoneFailed event of a stored
\* message have been handed to Dispatch, and StoreEvent with another event
\* name returns its error for that message
C20_Witness ==
    \E id \in DOMAIN repository :
       /\ createEvent(EventTypeMessagePhoneDelivered, id, 0, TRUE)
             \in dispatched
       /\ createEvent(EventTypeMessagePhoneFailed, id, 0, TRUE)
             \in dispatched
       /\ StoreEvent(repository[id],
                     [MessageID |-> id, EventName |-> MessageEventNameOther,
                      Timestamp |-> 1],
                     TRUE, TRUE, TRUE).err = ErrEventName

\* C21: StoreEvent never calls Store or Update and leaves every persisted
\* message as it was, for every event name and every outcome of SetData,
\* Dispatch and Load; and a step that changes a persisted message is a
\* Handle* call that returned nil, or the step of the external actor,
\* never a StoreEvent call.
C21_StoreEventPersistsNothing ==
    /\ [](\A id \in DOMAIN repository, params \in MessageStorePhoneEventParams,
             setDataOK \in BOOLEAN, dispatchOK \in BOOLEAN, loadOK \in BOOLEAN :
             LET call == StoreEvent(repository[id], params, setDataOK,
                                    dispatchOK, loadOK)
             IN /\ call.storeCalls = 0
                /\ call.updateCalls = 0
                /\ call.repository = repository
                /\ call.result # Nil =>
                      call.result[1] = repository[params.MessageID])
    /\ [][\A id \in DOMAIN repository :
            /\ id \in DOMAIN repository'
            /\ repository'[id] # repository[id] =>
                  \/ ExternalSending(id)
                  \/ \E op \in HandleOps, timestamp \in Timestamps :
                        LET call == Handle(op, ParamsOf(id, timestamp), TRUE)
                        IN /\ call.err = ErrNone
                           /\ repository' = call.repository]_vars

\* the MessagePhoneSent and the MessagePhoneDelivered event of a message
\* have been handed to Dispatch and the message is still Sending, no
\* HandleMessageSent call having succeeded on it
C21_Witness ==
    \E id \in DOMAIN repository :
       /\ repository[id].Status = MessageStatusSending
       /\ successes[id].sent = 0
       /\ createEvent(EventTypeMessagePhoneSent, id, 0, TRUE) \in dispatched
       /\ createEvent(EventTypeMessagePhoneDelivered, id, 0, TRUE)
             \in dispatched

(***************************************************************************)
(* Properties of the identity of a stored record.                          *)
(***************************************************************************)
\* what C22 says of a StoreSentMessage or StoreReceivedMessage call that
\* returned nil
StoredUnderParams(call, params) ==
    /\ call.result # Nil
    /\ call.result[1].ID = params.ID
    /\ call.result[1].UserID = params.UserID
    /\ LoadFrom(call.repository, params.UserID, params.ID) = call.result[1]

\* C22, as claimed: the record a StoreSentMessage or StoreReceivedMessage
\* call creates carries the ID and the UserID of its parameters, and
\* Load with that UserID and that ID on the records the call leaves
\* returns it.
C22_StoredUnderParamsIdentity ==
    \A params \in MessageStoreParams :
       params.ID \notin DOMAIN repository =>
          /\ StoredUnderParams(StoreSentMessage(params, TRUE), params)
          /\ StoredUnderParams(StoreReceivedMessage(params, TRUE), params)

(***************************************************************************)
(* Properties of a Pending message.                                        *)
(***************************************************************************)
\* the stored messages with status Pending
PendingIDs ==
    {id \in DOMAIN repository : repository[id].Status = MessageStatusPending}

\* C23: every HandleMessageSending, HandleMessageSent, HandleMessageFailed
\* and HandleMessageDelivered call for a Pending message, whoever the
\* caller and whatever the outcome of Update, returns an error without an
\* Update call; StoreEvent, SendMessage and ReceiveMessage leave the
\* message as it is; and in every step a Pending message stays stored and
\* Pending, unchanged, the step of the external actor to Sending apart.
C23_PendingUntilExternalSending ==
    /\ [](\A id \in PendingIDs :
            /\ \A op \in HandleOps, params \in HandleMessageParams,
                  updateOK \in BOOLEAN :
                  LET call == Handle(op, params, updateOK) IN
                  params.ID = id =>
                     /\ call.err \in {ErrLoad, ErrStatus}
                     /\ call.err = ErrStatus <=>
                           params.UserID = repository[id].UserID
                     /\ call.updateCalls = 0
                     /\ call.repository = repository
            /\ \A params \in MessageStorePhoneEventParams,
                  setDataOK \in BOOLEAN, dispatchOK \in BOOLEAN,
                  loadOK \in BOOLEAN :
                  StoreEvent(repository[id], params, setDataOK, dispatchOK,
                             loadOK).repository[id] = repository[id]
            /\ \A new \in MessageIDs, setDataOK \in BOOLEAN,
                  dispatchOK \in BOOLEAN, subscriberStored \in BOOLEAN :
                  NewID(new) =>
                     /\ \A params \in MessageSendParams :
                           SendMessage(params, new, setDataOK, dispatchOK,
                                       subscriberStored).repository[id]
                              = repository[id]
                     /\ \A params \in MessageReceiveParams :
                           ReceiveMessage(params, new, setDataOK, dispatchOK,
                                          subscriberStored).repository[id]
                              = repository[id])
    /\ [][\A id \in PendingIDs :
            /\ id \in DOMAIN repository'
            /\ \/ repository'[id] = repository[id]
               \/ ExternalSending(id)]_vars

\* a message is still Pending, as StoreSentMessage left it, next to a
\* message the external actor moved to Sending and the Handle* calls then
\* moved to Delivered: the Handle* calls of its owner fail for the status
C23_Witness ==
    \E id \in PendingIDs, other \in DOMAIN repository :
       /\ repository[other].Status = MessageStatusDelivered
       /\ successes[other] = [sent |-> 1, delivered |-> 1]
       /\ successes[id] = [sent |-> 0, delivered |-> 0]
       /\ \A op \in HandleOps :
             Handle(op, ParamsOf(id, MaxTimestamp), TRUE).err = ErrStatus

(***************************************************************************)
(* Receiver.register                                                       *)
(***************************************************************************)
NextReceiver == \E context \in Contexts : register(context)

\* register calls, one after the other, with any contexts
SpecReceiver == Init /\ [][NextReceiver]_vars

\* the registerReceiver calls made with a receiver of the given class
RegisteredOf(class) ==
    {k \in DOMAIN registered : registered[k].receiver.class = class}

\* C24: once register has been called, however many times and with
\* whatever contexts, registerReceiver has been called exactly once with a
\* SentReceiver and exactly once with a DeliveredReceiver, both during the
\* first register call and with its context, for the receivers the two
\* fields hold; every later register call changes neither the fields nor
\* the registrations.
C24_RegisterIdempotent ==
    /\ [](registerCalls = <<>> =>
            /\ registered = <<>>
            /\ sentReceiver = Nil
            /\ deliveredReceiver = Nil)
    /\ [](registerCalls # <<>> =>
            /\ Cardinality(RegisteredOf("SentReceiver")) = 1
            /\ Cardinality(RegisteredOf("DeliveredReceiver")) = 1
            /\ Len(registered) = 2
            /\ registered[1] =
                  [context |-> registerCalls[1],
                   receiver |-> SentReceiver(1), filter |-> SentFilter]
            /\ registered[2] =
                  [context |-> registerCalls[1],
                   receiver |-> DeliveredReceiver(1),
                   filter |-> DeliveredFilter]
            /\ sentReceiver = Ptr(registered[1].receiver)
            /\ deliveredReceiver = Ptr(registered[2].receiver))
    /\ [][registerCalls # <<>> =>
            UNCHANGED <<sentReceiver, deliveredReceiver, registered>>]_vars

\* register has been called MaxRegisterCalls times, the later calls with
\* contexts other than the first one's, and two receivers are registered
C24_Witness ==
    /\ Len(registerCalls) = MaxRegisterCalls
    /\ \A k \in 2..MaxRegisterCalls : registerCalls[k] # registerCalls[1]
    /\ Len(registered) = 2
    /\ sentReceiver # Nil
    /\ deliveredReceiver # Nil
====
